---- MODULE Spec2Model ----
(***************************************************************************)
(* Model of remote_table.core: the RemoteTable facade, its format dispatch *)
(* (_load), the dependency resolver (_lazy_import) and the header          *)
(* normalizer (_ensure_headers_from_first_row, _clean_headers).            *)
(*                                                                         *)
(* Python strings are sequences of one-character strings, so that split,   *)
(* join, lower, startswith, isdigit and str() are computed, not assumed.   *)
(* A Python scalar (a cell or a column label) is a tagged record           *)
(* [t, s, n]: StrVal(s), IntVal(n) or NoneVal.                             *)
(***************************************************************************)
EXTENDS Integers, Sequences, FiniteSets, TLC

VARIABLES
    source,     \* self.source: the source identifier (string)
    kwargs,     \* self.kwargs: [headers, root_node, as_dict]
    pc,         \* position inside __init__/_load, then "done" or "failed"
    content,    \* bytes read by the fetch, as the document they encode
    df,         \* the local df of _load (raw, then promoted, then cleaned)
    data,       \* the DataFrame object self.data refers to
    err,        \* the exception construction raised, kind "none" if none
    callerRef,  \* reference held by the caller: "none" or "self.data"
    iterOut,    \* rows produced by the last __iter__ call
    returned,   \* the table as it was when construction returned
    mutations,  \* number of in-place changes the caller has made
    cleanings   \* number of _clean_headers passes applied to df

vars == <<source, kwargs, pc, content, df, data, err, callerRef, iterOut,
          returned, mutations, cleanings>>

----------------------------------------------------------------------------
(* Bounds of the model *)

MaxRows == 2        \* rows of a source grid
MaxCols == 3        \* labels of a label sequence given to the cleaning passes
MaxPasses == 2      \* consecutive cleaning passes
MaxMutations == 1   \* caller mutations through an aliased handle

----------------------------------------------------------------------------
(* Python scalars and strings *)

StrVal(s) == [t |-> "str", s |-> s, n |-> 0]
IntVal(n) == [t |-> "int", s |-> <<>>, n |-> n]
NoneVal == [t |-> "none", s |-> <<>>, n |-> 0]

Range(f) == {f[i] : i \in DOMAIN f}

DigitChars == <<"0", "1", "2", "3", "4", "5", "6", "7", "8", "9">>

UpperChars == <<"A", "B", "C", "D", "E", "F", "G", "H", "I", "J", "K", "L", "M",
                "N", "O", "P", "Q", "R", "S", "T", "U", "V", "W", "X", "Y", "Z">>

LowerChars == <<"a", "b", "c", "d", "e", "f", "g", "h", "i", "j", "k", "l", "m",
                "n", "o", "p", "q", "r", "s", "t", "u", "v", "w", "x", "y", "z">>

\* str.lower() on one character
LowerChar(ch) ==
    IF \E i \in DOMAIN UpperChars : UpperChars[i] = ch
    THEN LowerChars[CHOOSE i \in DOMAIN UpperChars : UpperChars[i] = ch]
    ELSE ch

\* str.lower()
Lower(s) == [i \in DOMAIN s |-> LowerChar(s[i])]

\* str.startswith(prefix)
StartsWith(s, prefix) ==
    /\ Len(s) >= Len(prefix)
    /\ SubSeq(s, 1, Len(prefix)) = prefix

\* str.isdigit(): non-empty and every character a digit
IsDigit(s) == Len(s) > 0 /\ \A i \in DOMAIN s : s[i] \in Range(DigitChars)

\* str(n) for an int n
RECURSIVE NatStr(_)
NatStr(n) ==
    IF n < 10 THEN <<DigitChars[n + 1]>>
    ELSE NatStr(n \div 10) \o <<DigitChars[(n % 10) + 1]>>

IntStr(n) == IF n < 0 THEN <<"-">> \o NatStr(0 - n) ELSE NatStr(n)

\* str(c) for a scalar c
PyStr(c) ==
    CASE c.t = "str" -> c.s
      [] c.t = "int" -> IntStr(c.n)
      [] OTHER -> <<"N", "o", "n", "e">>

IsSpace(ch) == ch \in {" ", "\t", "\n"}

\* str.split(): the maximal runs of non-whitespace characters, in order
RECURSIVE SplitFrom(_, _, _)
SplitFrom(s, i, word) ==
    IF i > Len(s)
    THEN IF word = <<>> THEN <<>> ELSE <<word>>
    ELSE IF IsSpace(s[i])
         THEN IF word = <<>> THEN SplitFrom(s, i + 1, <<>>)
              ELSE <<word>> \o SplitFrom(s, i + 1, <<>>)
         ELSE SplitFrom(s, i + 1, Append(word, s[i]))

Split(s) == SplitFrom(s, 1, <<>>)

\* sep.join(words)
RECURSIVE Join(_, _)
Join(sep, words) ==
    IF words = <<>> THEN <<>>
    ELSE IF Len(words) = 1 THEN words[1]
    ELSE words[1] \o sep \o Join(sep, Tail(words))

\* str.strip()
RECURSIVE Strip(_)
Strip(s) ==
    IF s = <<>> THEN s
    ELSE IF IsSpace(s[1]) THEN Strip(Tail(s))
    ELSE IF IsSpace(s[Len(s)]) THEN Strip(SubSeq(s, 1, Len(s) - 1))
    ELSE s

----------------------------------------------------------------------------
(* A DataFrame: its column labels and its rows (each row a sequence of     *)
(* scalars, one per column).                                               *)

DataFrame(columns, rows) == [columns |-> columns, rows |-> rows]

EmptyFrame == DataFrame(<<>>, <<>>)

\* pd.DataFrame(rows) for a list of lists: positional integer labels 0..n-1
PositionalColumns(rows) ==
    IF rows = <<>> THEN <<>> ELSE [i \in 1..Len(rows[1]) |-> IntVal(i - 1)]

FrameOfRows(rows) == DataFrame(PositionalColumns(rows), rows)

----------------------------------------------------------------------------
(* Header normalizer, stage 2: RemoteTable._clean_headers *)

Unnamed == <<"u", "n", "n", "a", "m", "e", "d">>

UntitledPrefix == <<"u", "n", "t", "i", "t", "l", "e", "d", "_">>

\* name = '' if c is None else str(c); ' '.join(name.split()); name.strip()
NormalizeName(c) ==
    Strip(Join(<<" ">>, Split(IF c.t = "none" THEN <<>> ELSE PyStr(c))))

\* the 'unnamed' test left out
IsUntitledBlankOnly(name) == name = <<>>

\* name == '' or name.lower().startswith('unnamed')
IsUntitled(name) == name = <<>> \/ StartsWith(Lower(name), Unnamed)

\* if instead of while: one suffix attempt only
WhileSeenOnce(name, base, suffix, seen) ==
    IF name \in seen THEN base \o <<"_">> \o IntStr(suffix) ELSE name

\* while name in seen: name = f"{base}_{suffix}"; suffix += 1
RECURSIVE WhileSeen(_, _, _, _)
WhileSeen(name, base, suffix, seen) ==
    IF name \in seen
    THEN WhileSeen(base \o <<"_">> \o IntStr(suffix), base, suffix + 1, seen)
    ELSE name

\* the for loop over enumerate(cols), from column i on
RECURSIVE CleanLoop(_, _, _, _, _)
CleanLoop(cols, i, new, seen, untitled_count) ==
    IF i > Len(cols) THEN new
    ELSE LET norm == NormalizeName(cols[i])
             count == IF IsUntitled(norm) THEN untitled_count + 1
                      ELSE untitled_count
             base == IF IsUntitled(norm) THEN UntitledPrefix \o IntStr(count)
                     ELSE norm
             name == WhileSeen(base, base, 1, seen)
         IN  CleanLoop(cols, i + 1, Append(new, name), seen \cup {name}, count)

\* the new label strings _clean_headers assigns to df.columns
CleanNames(cols) == CleanLoop(cols, 1, <<>>, {}, 0)

_clean_headers(frame) ==
    LET new == CleanNames(frame.columns)
    IN  [frame EXCEPT !.columns = [i \in DOMAIN new |-> StrVal(new[i])]]

----------------------------------------------------------------------------
(* Header normalizer, stage 1: RemoteTable._ensure_headers_from_first_row *)

\* isinstance(c, (int,)) or (isinstance(c, str) and c.isdigit())
LooksPositional(c) == c.t = "int" \/ (c.t = "str" /\ IsDigit(c.s))

\* any(...) instead of all(...)
numeric_cols_any(frame) ==
    \E i \in DOMAIN frame.columns : LooksPositional(frame.columns[i])

\* all(... for c in cols)
numeric_cols(frame) == \A i \in DOMAIN frame.columns : LooksPositional(frame.columns[i])

\* df.iloc[0].astype(str).tolist()
FirstRowAsStr(frame) ==
    [i \in DOMAIN frame.rows[1] |-> StrVal(PyStr(frame.rows[1][i]))]

_ensure_headers_from_first_row(frame) ==
    IF Len(frame.rows) = 0 THEN frame
    ELSE IF numeric_cols(frame)
         THEN DataFrame(FirstRowAsStr(frame), Tail(frame.rows))
         ELSE frame

----------------------------------------------------------------------------
(* Source identifiers and format tags *)

Csv == <<"c", "s", "v">>
Tsv == <<"t", "s", "v">>
Json == <<"j", "s", "o", "n">>
Xlsx == <<"x", "l", "s", "x">>
Xls == <<"x", "l", "s">>
Ods == <<"o", "d", "s">>
Yml == <<"y", "m", "l">>
Yaml == <<"y", "a", "m", "l">>
Xml == <<"x", "m", "l">>
Html == <<"h", "t", "m", "l">>
Ini == <<"i", "n", "i">>

\* the tags the if/elif chain of _load recognizes
SupportedTags == {Csv, Tsv, Json, Xlsx, Xls, Ods, Yml, Yaml, Xml, Html}

HttpScheme == <<"h", "t", "t", "p", ":", "/", "/">>
HttpsScheme == <<"h", "t", "t", "p", "s", ":", "/", "/">>

\* source identifiers the caller may pass: one local path per tag, an
\* upper-case extension, a name with two dots, a name without a dot, a URL
Sources ==
    {<<"d", ".">> \o tag : tag \in SupportedTags \cup {Ini}}
    \cup {<<"d", ".", "C", "S", "V">>,
          <<"d", ".", "c", "s", "v", ".", "i", "n", "i">>,
          <<"d", "a", "t", "a">>,
          HttpScheme \o <<"h", "/", "d", ".", "x", "m", "l">>}

\* source.startswith('http://') or source.startswith('https://')
IsUrl(src) == StartsWith(src, HttpScheme) \/ StartsWith(src, HttpsScheme)

\* source.split('.')[-1]: the part after the last '.', the whole string if none
LastDotSegment(src) ==
    LET dots == {i \in DOMAIN src : src[i] = "."}
    IN  IF dots = {} THEN src
        ELSE SubSeq(src, (CHOOSE i \in dots : \A j \in dots : j <= i) + 1, Len(src))

\* ext = self.source.split('.')[-1].lower()
FormatTag(src) == Lower(LastDotSegment(src))

----------------------------------------------------------------------------
(* Source contents.  A grid is a sequence of rows of NumCols cells; the    *)
(* cells are given as the scalars the underlying parser yields for them.   *)

A == StrVal(<<"a">>)
B == StrVal(<<"b">>)

SampleRows ==
    { <<A, B>>,                      \* plain names
      <<A, A>>,                      \* a duplicate
      <<IntVal(7), IntVal(8)>>,      \* digits only, e.g. 2019,2020
      <<NoneVal, A>>,                \* a blank cell
      <<IntVal(7), B>> }             \* digits and a name

RECURSIVE GridsOfLen(_)
GridsOfLen(n) ==
    IF n = 0 THEN {<<>>}
    ELSE {Append(g, r) : g \in GridsOfLen(n - 1), r \in SampleRows}

Grids == UNION {GridsOfLen(n) : n \in 0..MaxRows}

\* JSON / YAML documents: a mapping, a list of mappings (every mapping with
\* the keys `keys`, the values of record i being rows[i]), or a scalar
MapObj(m) == [t |-> "map", m |-> m, keys |-> <<>>, rows |-> <<>>]
ListObj(keys, rows) == [t |-> "list", m |-> <<>>, keys |-> keys, rows |-> rows]
EmptyMap == MapObj(<<>>)

KeyData == <<"d", "a", "t", "a">>
KeyRows == <<"r", "o", "w", "s">>

\* key sequences of the records: names, or digit strings
SampleKeys == { <<A, B>>, <<StrVal(<<"0">>), StrVal(<<"1">>)>> }

Lists == {ListObj(k, g) : k \in SampleKeys, g \in Grids}

Docs ==
    Lists
    \cup {MapObj([k \in {KeyData} |-> l]) : l \in Lists}
    \cup {MapObj([k \in {KeyData} |-> MapObj([j \in {KeyRows} |-> l])]) : l \in Lists}
    \cup {EmptyMap, MapObj([k \in {KeyData} |-> EmptyMap])}

GridContent(rows) == [kind |-> "grid", rows |-> rows, obj |-> EmptyMap]
DocContent(obj) == [kind |-> "doc", rows |-> <<>>, obj |-> obj]
Garbage == [kind |-> "garbage", rows |-> <<>>, obj |-> EmptyMap]
NoContent == [kind |-> "nothing", rows |-> <<>>, obj |-> EmptyMap]

----------------------------------------------------------------------------
(* Options *)

\* kwargs['headers']: False, 'first_row', or a list of names
HeadersFalse == [kind |-> "false", names |-> <<>>]
HeadersFirstRow == [kind |-> "first_row", names |-> <<>>]
HeadersList(names) == [kind |-> "list", names |-> names]

X == <<"x">>
Y == <<"y">>

HeaderOptions ==
    {HeadersFalse, HeadersFirstRow, HeadersList(<<X, Y>>), HeadersList(<<X, X>>),
     HeadersList(<<UntitledPrefix \o <<"1">>, <<" ">>>>)}

\* kwargs.get('root_node'): absent (None, falsy like '') or a dot-path
RootNodes == {<<>>, KeyData, KeyData \o <<".">> \o KeyRows}

----------------------------------------------------------------------------
(* Exceptions *)

NoError == [kind |-> "none", tag |-> <<>>, module |-> "", hint |-> ""]

\* raise ValueError(f'Unsupported file extension: {ext}')
UnsupportedFormat(ext) ==
    [kind |-> "UnsupportedFormat", tag |-> ext, module |-> "", hint |-> ""]

\* any exception of a collaborator: a failed fetch, a parser's error
Failure(kind) == [kind |-> kind, tag |-> <<>>, module |-> "", hint |-> ""]

\* an exception a library raises itself because it cannot import `module_name`
LibraryImportFailure(kind, module_name) ==
    [kind |-> kind, tag |-> <<>>, module |-> module_name, hint |-> ""]

\* the ImportError _lazy_import raises; hint = package_hint or module_name
\* (package_hint None is "")
MissingCapability(module_name, package_hint) ==
    [kind |-> "MissingCapability", tag |-> <<>>, module |-> module_name,
     hint |-> IF package_hint = "" THEN module_name ELSE package_hint]

\* _lazy_import(module_name, package_hint), importable saying whether
\* importlib.import_module succeeds: the exception raised, NoError if none
_lazy_import(module_name, package_hint, importable) ==
    IF importable THEN NoError ELSE MissingCapability(module_name, package_hint)

\* the outcome of a handler: a frame, or the exception it raised
Ok(frame) == [err |-> NoError, frame |-> frame]
Raise(e) == [err |-> e, frame |-> EmptyFrame]

----------------------------------------------------------------------------
(* The pandas readers _load calls, by their documented behaviour for the   *)
(* arguments _load passes.                                                 *)

UnnamedColumn(i) ==
    <<"U", "n", "n", "a", "m", "e", "d", ":", " ">> \o IntStr(i)

\* pandas' renaming of repeated header names: a name used cur_count > 0
\* times before becomes f"{col}.{cur_count}", until the result is unused
Count(counts, col) == IF col \in DOMAIN counts THEN counts[col] ELSE 0

SetCount(counts, col, n) ==
    [k \in DOMAIN counts \cup {col} |-> IF k = col THEN n ELSE counts[k]]

RECURSIVE DedupName(_, _)
DedupName(col, counts) ==
    LET cur_count == Count(counts, col)
    IN  IF cur_count > 0
        THEN DedupName(StrVal(PyStr(col) \o <<".">> \o IntStr(cur_count)),
                       SetCount(counts, col, cur_count + 1))
        ELSE [col |-> col, counts |-> SetCount(counts, col, 1)]

RECURSIVE DedupNames(_, _, _, _)
DedupNames(names, i, out, counts) ==
    IF i > Len(names) THEN out
    ELSE LET r == DedupName(names[i], counts)
         IN  DedupNames(names, i + 1, Append(out, r.col), r.counts)

\* the labels pandas infers from a header row: a blank cell becomes
\* 'Unnamed: <i>', repeats are renamed; asText says whether every label is
\* text (read_csv) or keeps the cell's type (read_excel)
InferHeader(row, asText) ==
    LET filled == [i \in DOMAIN row |->
                     IF row[i].t = "none" THEN StrVal(UnnamedColumn(i - 1))
                     ELSE IF asText THEN StrVal(PyStr(row[i]))
                     ELSE row[i]]
    IN  DedupNames(filled, 1, <<>>, <<>>)

HasDuplicates(seq) == \E i, j \in DOMAIN seq : i < j /\ seq[i] = seq[j]

\* pd.read_csv(io.BytesIO(content), **read_csv_kwargs), lines 56-63:
\* no 'header' key -> the first line is the header; header=None -> positional
\* labels; header=None with names -> the names are the labels
read_csv(c, headers) ==
    IF c.kind # "grid" THEN Raise(Failure("MalformedSource"))
    ELSE IF headers.kind = "list"
    THEN IF HasDuplicates(headers.names)
         THEN Raise(Failure("MalformedSource"))   \* Duplicate names are not allowed
         ELSE Ok(DataFrame([i \in DOMAIN headers.names |-> StrVal(headers.names[i])],
                           c.rows))
    ELSE IF c.rows = <<>> THEN Raise(Failure("MalformedSource"))   \* EmptyDataError
    ELSE IF headers.kind = "false" THEN Ok(FrameOfRows(c.rows))
    ELSE Ok(DataFrame(InferHeader(c.rows[1], TRUE), Tail(c.rows)))

\* pd.read_excel(io.BytesIO(content), ...), lines 79 and 84: no header
\* argument is passed, so the first sheet row is the header
read_excel(c) ==
    IF c.kind # "grid" THEN Raise(Failure("MalformedSource"))
    ELSE IF c.rows = <<>> THEN Ok(EmptyFrame)
    ELSE Ok(DataFrame(InferHeader(c.rows[1], FALSE), Tail(c.rows)))

\* pd.DataFrame(rows) of _read_ods, _read_xml, _read_html
read_rows(c) ==
    IF c.kind # "grid" THEN Raise(Failure("MalformedSource"))
    ELSE Ok(FrameOfRows(c.rows))

----------------------------------------------------------------------------
(* root_node traversal and tabulation of a JSON / YAML object, lines 68-72 *)
(* and 92-96                                                               *)

\* str.split(sep): the segments between the separators, empty ones kept
RECURSIVE SplitOn(_, _, _, _)
SplitOn(s, sep, i, part) ==
    IF i > Len(s) THEN <<part>>
    ELSE IF s[i] = sep THEN <<part>> \o SplitOn(s, sep, i + 1, <<>>)
    ELSE SplitOn(s, sep, i + 1, Append(part, s[i]))

\* obj[part] instead of obj.get(part, {}): a missing key raises
GetOrRaise(obj, part) ==
    IF obj.t # "map" THEN [ok |-> FALSE, obj |-> obj]
    ELSE IF part \in DOMAIN obj.m THEN [ok |-> TRUE, obj |-> obj.m[part]]
    ELSE [ok |-> FALSE, obj |-> obj]

\* obj.get(part, {}): ok FALSE when obj has no get (AttributeError)
Get(obj, part) ==
    IF obj.t # "map" THEN [ok |-> FALSE, obj |-> obj]
    ELSE IF part \in DOMAIN obj.m THEN [ok |-> TRUE, obj |-> obj.m[part]]
    ELSE [ok |-> TRUE, obj |-> EmptyMap]

\* for part in root.split('.'): obj = obj.get(part, {})
RECURSIVE Walk(_, _)
Walk(obj, parts) ==
    IF parts = <<>> THEN [ok |-> TRUE, obj |-> obj]
    ELSE LET r == Get(obj, parts[1])
         IN  IF r.ok THEN Walk(r.obj, Tail(parts)) ELSE r

\* root = self.kwargs.get('root_node'); if root: ...
Select(obj, root) ==
    IF root = <<>> THEN [ok |-> TRUE, obj |-> obj]
    ELSE Walk(obj, SplitOn(root, ".", 1, <<>>))

\* pd.DataFrame(obj) for a list of mappings or an empty mapping
FrameOfObj(obj) ==
    IF obj.t = "list" /\ obj.rows # <<>> THEN DataFrame(obj.keys, obj.rows)
    ELSE EmptyFrame

\* the shapes FrameOfObj covers: a list of mappings, or an empty mapping
Tabular(obj) == obj.t = "list" \/ obj = EmptyMap

\* lines 66-72 / 90-96: decode, parse, select, tabulate
read_object(c, root) ==
    IF c.kind # "doc" THEN Raise(Failure("MalformedSource"))
    ELSE LET r == Select(c.obj, root)
         IN  IF r.ok THEN Ok(FrameOfObj(r.obj)) ELSE Raise(Failure("AttributeError"))

----------------------------------------------------------------------------
(* Construction: RemoteTable.__init__ and the steps of _load *)

HeadersAbsent == [kind |-> "absent", names |-> <<>>]

ObjectTags == {Json, Yml, Yaml}

NoIter == <<>>

Init ==
    /\ source \in Sources
    /\ kwargs \in [headers : HeaderOptions \cup {HeadersAbsent},
                   root_node : RootNodes,
                   as_dict : BOOLEAN]
    \* root_node is read by the json and yaml handlers only
    /\ kwargs.root_node # <<>> => FormatTag(source) \in ObjectTags
    /\ pc = "new"
    /\ content = NoContent
    /\ df = EmptyFrame
    /\ data = EmptyFrame
    /\ returned = EmptyFrame
    /\ err = NoError
    /\ callerRef = "none"
    /\ iterOut = NoIter
    /\ mutations = 0
    /\ cleanings = 0

\* lines 24-31: store the options, default headers to 'first_row'
Construct ==
    /\ pc = "new"
    /\ kwargs' = IF kwargs.headers.kind = "absent"
                 THEN [kwargs EXCEPT !.headers = HeadersFirstRow]
                 ELSE kwargs
    /\ pc' = "load"
    /\ UNCHANGED <<source, content, df, data, err, callerRef, iterOut, returned,
                   mutations, cleanings>>

\* the documents a source with this tag may hold: grids for the grid formats,
\* objects for json/yaml (those root_node leads to a list of mappings or an
\* empty mapping in, or fails on), undecodable bytes for any tag
ContentsFor(tag, opts) ==
    {Garbage}
    \cup (IF tag \in ObjectTags
          THEN {DocContent(o) : o \in {d \in Docs :
                    LET r == Select(d, opts.root_node) IN r.ok => Tabular(r.obj)}}
          ELSE IF tag \in SupportedTags
          THEN {GridContent(g) : g \in
                    IF opts.headers.kind = "list" /\ tag \in {Csv, Tsv}
                    THEN Grids \ {<<>>} ELSE Grids}
          ELSE {GridContent(g) : g \in GridsOfLen(1)})

\* lines 35-41: requests.get(...).content for a URL, open(...).read() for a
\* path; either may raise, and the tag is computed after the read
Fetch ==
    /\ pc = "load"
    /\ \E readable \in BOOLEAN :
          IF readable
          THEN /\ \E c \in ContentsFor(FormatTag(source), kwargs) : content' = c
               /\ pc' = "dispatch"
               /\ err' = err
          ELSE /\ content' = content
               /\ pc' = "failed"
               /\ err' = Failure("SourceUnavailable")
    /\ UNCHANGED <<source, kwargs, df, data, callerRef, iterOut, returned,
                   mutations, cleanings>>

ext == FormatTag(source)

\* a handler's outcome: df is bound and _load goes on, or the exception
\* leaves _load and __init__
Finish(outcome) ==
    /\ IF outcome.err = NoError
       THEN /\ df' = outcome.frame
            /\ pc' = "post"
            /\ err' = err
       ELSE /\ df' = df
            /\ pc' = "failed"
            /\ err' = outcome.err
    /\ UNCHANGED <<source, kwargs, content, data, callerRef, iterOut, returned,
                   mutations, cleanings>>

\* lines 43-63
ParseDelimited ==
    /\ pc = "dispatch"
    /\ ext \in {Csv, Tsv}
    /\ Finish(read_csv(content, kwargs.headers))

\* lines 64-72
ParseJson ==
    /\ pc = "dispatch"
    /\ ext = Json
    /\ Finish(read_object(content, kwargs.root_node))

\* lines 73-79
ParseXlsx ==
    /\ pc = "dispatch"
    /\ ext = Xlsx
    /\ \E importable \in BOOLEAN :
          LET e == _lazy_import("openpyxl", "openpyxl", importable)
          IN  Finish(IF e # NoError THEN Raise(e) ELSE read_excel(content))

\* lines 80-84: no _lazy_import; pandas itself imports xlrd and raises its
\* own ImportError when that fails
ParseXls ==
    /\ pc = "dispatch"
    /\ ext = Xls
    /\ \E importable \in BOOLEAN :
          Finish(IF ~importable THEN Raise(LibraryImportFailure("PandasImportError", "xlrd"))
                 ELSE read_excel(content))

\* lines 85-86 and 151-166
ParseOds ==
    /\ pc = "dispatch"
    /\ ext = Ods
    /\ \E opendocument, table \in BOOLEAN :
          LET e1 == _lazy_import("odf.opendocument", "odfpy", opendocument)
              e2 == _lazy_import("odf.table", "odfpy", table)
          IN  Finish(IF e1 # NoError THEN Raise(e1)
                     ELSE IF e2 # NoError THEN Raise(e2)
                     ELSE read_rows(content))

\* lines 87-96
ParseYaml ==
    /\ pc = "dispatch"
    /\ ext \in {Yml, Yaml}
    /\ \E importable \in BOOLEAN :
          LET e == _lazy_import("yaml", "pyyaml", importable)
          IN  Finish(IF e # NoError THEN Raise(e)
                     ELSE read_object(content, kwargs.root_node))

\* lines 97-98 and 168-176
ParseXml ==
    /\ pc = "dispatch"
    /\ ext = Xml
    /\ \E importable \in BOOLEAN :
          LET e == _lazy_import("lxml.etree", "lxml", importable)
          IN  Finish(IF e # NoError THEN Raise(e) ELSE read_rows(content))

\* lines 99-100 and 178-198: bs4 through _lazy_import; the 'lxml' parser
\* BeautifulSoup is asked for is looked up by bs4 (FeatureNotFound if absent)
ParseHtml ==
    /\ pc = "dispatch"
    /\ ext = Html
    /\ \E importable, parser \in BOOLEAN :
          LET e == _lazy_import("bs4", "beautifulsoup4", importable)
          IN  Finish(IF e # NoError THEN Raise(e)
                     ELSE IF ~parser THEN Raise(LibraryImportFailure("FeatureNotFound", "lxml"))
                     ELSE read_rows(content))

\* an unknown tag handed to the delimited-text reader instead of raising
FallBackToCsv ==
    /\ pc = "dispatch"
    /\ ext \notin SupportedTags
    /\ Finish(read_csv(content, kwargs.headers))

\* lines 101-102
RaiseUnsupported ==
    /\ pc = "dispatch"
    /\ ext \notin SupportedTags
    /\ Finish(Raise(UnsupportedFormat(ext)))

\* lines 105-107
Promote ==
    /\ pc = "post"
    /\ df' = IF kwargs.headers.kind = "first_row"
             THEN _ensure_headers_from_first_row(df)
             ELSE df
    /\ pc' = "clean"
    /\ UNCHANGED <<source, kwargs, content, data, err, callerRef, iterOut,
                   returned, mutations, cleanings>>

\* lines 108-110 and line 32: clean, return df, self.data = df
Clean ==
    /\ pc = "clean"
    /\ df' = _clean_headers(df)
    /\ data' = df'
    /\ returned' = df'
    /\ cleanings' = cleanings + 1
    /\ pc' = "done"
    /\ UNCHANGED <<source, kwargs, content, err, callerRef, iterOut, mutations>>

----------------------------------------------------------------------------
(* The facade after construction *)

\* self.data.to_dict('records'): one new mapping label -> value per row
ToRecords(frame) ==
    [i \in DOMAIN frame.rows |-> [keys |-> frame.columns, values |-> frame.rows[i]]]

\* self.data.itertuples(index=False, name=None): one tuple per row
ToTuples(frame) ==
    [i \in DOMAIN frame.rows |-> [keys |-> <<>>, values |-> frame.rows[i]]]

\* lines 200-207, the iterator run to its end
Iter ==
    /\ pc = "done"
    /\ iterOut' = IF kwargs.as_dict THEN ToRecords(data) ELSE ToTuples(data)
    /\ UNCHANGED <<source, kwargs, pc, content, df, data, err, callerRef,
                   returned, mutations, cleanings>>

\* lines 209-210: return self.data, the object itself
to_dataframe ==
    /\ pc = "done"
    /\ callerRef' = "self.data"
    /\ UNCHANGED <<source, kwargs, pc, content, df, data, err, iterOut,
                   returned, mutations, cleanings>>

\* in-place changes a DataFrame offers its holder
DropFirstRow(frame) == [frame EXCEPT !.rows = Tail(frame.rows)]

RenameFirstColumn(frame) == [frame EXCEPT !.columns[1] = StrVal(<<"z">>)]

InPlaceChanges(frame) ==
    (IF frame.rows # <<>> THEN {DropFirstRow(frame)} ELSE {})
    \cup (IF frame.columns # <<>> THEN {RenameFirstColumn(frame)} ELSE {})

\* the caller changes, in place, the object to_dataframe returned
CallerMutatesFrame ==
    /\ pc = "done"
    /\ callerRef = "self.data"
    /\ mutations < MaxMutations
    /\ \E changed \in InPlaceChanges(data) : data' = changed
    /\ mutations' = mutations + 1
    /\ UNCHANGED <<source, kwargs, pc, content, df, err, callerRef, iterOut,
                   returned, cleanings>>

\* the caller changes the rows __iter__ gave it
CallerMutatesRows ==
    /\ pc = "done"
    /\ iterOut # NoIter
    /\ mutations < MaxMutations
    /\ iterOut' = Tail(iterOut)
    /\ mutations' = mutations + 1
    /\ UNCHANGED <<source, kwargs, pc, content, df, data, err, callerRef,
                   returned, cleanings>>

Next ==
    \/ Construct
    \/ Fetch
    \/ ParseDelimited
    \/ ParseJson
    \/ ParseXlsx
    \/ ParseXls
    \/ ParseOds
    \/ ParseYaml
    \/ ParseXml
    \/ ParseHtml
    \/ RaiseUnsupported
    \/ Promote
    \/ Clean
    \/ Iter
    \/ to_dataframe
    \/ CallerMutatesFrame
    \/ CallerMutatesRows

Spec == Init /\ [][Next]_vars

----------------------------------------------------------------------------
(* The cleaning stage on its own: _clean_headers applied, repeatedly, to   *)
(* a frame with an arbitrary label sequence                                *)

SampleLabels ==
    { A,
      StrVal(<<"a", "_", "1">>),
      StrVal(<<" ", "a", " ", " ", "b", "\t">>),
      StrVal(<<"a", " ", "b">>),
      StrVal(<<>>),
      StrVal(UnnamedColumn(0)),
      StrVal(<<"U", "N", "N", "A", "M", "E", "D">>),
      StrVal(UntitledPrefix \o <<"1">>),
      StrVal(UntitledPrefix \o <<"1", "_", "1">>),
      NoneVal,
      IntVal(0) }

RECURSIVE LabelSeqsOfLen(_)
LabelSeqsOfLen(n) ==
    IF n = 0 THEN {<<>>}
    ELSE {Append(l, c) : l \in LabelSeqsOfLen(n - 1), c \in SampleLabels}

LabelSeqs == UNION {LabelSeqsOfLen(n) : n \in 0..MaxCols}

InitClean ==
    /\ source = <<>>
    /\ kwargs = [headers |-> HeadersFalse, root_node |-> <<>>, as_dict |-> FALSE]
    /\ pc = "clean"
    /\ content = NoContent
    /\ df \in {DataFrame(l, <<>>) : l \in LabelSeqs}
    /\ data = EmptyFrame
    /\ returned = EmptyFrame
    /\ err = NoError
    /\ callerRef = "none"
    /\ iterOut = NoIter
    /\ mutations = 0
    /\ cleanings = 0

\* one more call of _clean_headers on the frame the last call returned
CleanAgain ==
    /\ pc = "clean"
    /\ cleanings < MaxPasses
    /\ df' = _clean_headers(df)
    /\ cleanings' = cleanings + 1
    /\ UNCHANGED <<source, kwargs, pc, content, data, err, callerRef, iterOut,
                   returned, mutations>>

NextClean == CleanAgain

SpecClean == InitClean /\ [][NextClean]_vars

----------------------------------------------------------------------------
(* Properties *)

TypeOK ==
    /\ pc \in {"new", "load", "dispatch", "post", "clean", "done", "failed"}
    /\ callerRef \in {"none", "self.data"}
    /\ mutations \in 0..MaxMutations
    /\ cleanings \in 0..MaxPasses
    /\ Len(df.columns) \in 0..MaxCols
    /\ \A i \in DOMAIN df.rows : Len(df.rows[i]) = Len(df.columns)

IsBlank(str) == \A i \in DOMAIN str : IsSpace(str[i])

LabelsClean(cols) ==
    /\ \A i \in DOMAIN cols :
          /\ cols[i].t = "str"
          /\ ~IsBlank(cols[i].s)
          /\ ~StartsWith(Lower(cols[i].s), Unnamed)
    /\ \A i, j \in DOMAIN cols : i # j => cols[i] # cols[j]

\* C1: every table construction returns has labels that are not blank, do
\* not start (case-insensitively) with 'unnamed', and are pairwise distinct,
\* for every format tag and every headers option.
C1_ReturnedLabelsClean == pc = "done" => LabelsClean(returned.columns)

Untitled1 == StrVal(UntitledPrefix \o <<"1">>)

\* a csv load with the names ['untitled_1', ' ']: the blank name was replaced
\* by 'untitled_1', which collided with the first label and was suffixed
C1_Witness ==
    /\ pc = "done"
    /\ ext = Csv
    /\ returned.columns = <<Untitled1, StrVal(UntitledPrefix \o <<"1", "_", "1">>)>>
    /\ Len(returned.rows) >= 1

IsDelimited == ext \in {Csv, Tsv}

\* C2: a csv/tsv source loaded with the default headers option has the
\* cleaned cells of its first row as labels (the cells as the delimited-text
\* parser reports header cells: text, a blank or repeated name renamed) and
\* all its remaining rows, in order, as data rows (N source rows give N-1
\* data rows), whatever the first row holds.
C2_FirstRowIsHeader ==
    (pc = "done" /\ IsDelimited /\ kwargs.headers.kind = "first_row")
        => /\ Len(content.rows) >= 1
           /\ Len(returned.rows) = Len(content.rows) - 1
           /\ returned.rows = Tail(content.rows)
           /\ returned.columns
                = _clean_headers(DataFrame(InferHeader(content.rows[1], TRUE), <<>>)).columns

\* the rows of the source: the grid's rows, or the records of the list that
\* root_node selects in a JSON / YAML document
SourceRows ==
    IF content.kind = "grid" THEN content.rows
    ELSE LET r == Select(content.obj, kwargs.root_node)
         IN  IF r.ok /\ r.obj.t = "list" THEN r.obj.rows ELSE <<>>

\* C3: with headers=False, for every format tag, every source row is a data
\* row, the first one included: as many data rows as source rows, the first
\* data row holding the first source row's cells.
C3_HeadersFalseKeepsFirstRow ==
    (pc = "done" /\ kwargs.headers.kind = "false")
        => /\ Len(returned.rows) = Len(SourceRows)
           /\ returned.rows = SourceRows

\* C4: with an explicit headers list, for every format tag, the supplied
\* names (cleaned) are the labels and every source row is a data row.
C4_ExplicitHeadersUsed ==
    (pc = "done" /\ kwargs.headers.kind = "list")
        => /\ returned.columns
                = _clean_headers(DataFrame([i \in DOMAIN kwargs.headers.names |->
                                               StrVal(kwargs.headers.names[i])],
                                           <<>>)).columns
           /\ returned.rows = SourceRows

Ended == pc \in {"done", "failed"}

\* C5 as stated: a source whose tag is not supported always fails with
\* UnsupportedFormat naming the tag, and with no other failure.
C5_UnsupportedAlwaysUnsupportedFormat ==
    (Ended /\ ext \notin SupportedTags)
        => (pc = "failed" /\ err = UnsupportedFormat(ext))

\* C5, amended: a source whose tag is not supported never yields a table;
\* once its bytes were fetched, construction fails with UnsupportedFormat
\* naming the tag; when the fetch itself fails, that failure is reported.
C5_UnsupportedAfterFetch ==
    ext \notin SupportedTags
        => /\ pc \notin {"post", "clean", "done"}
           /\ pc = "failed"
                => IF content = NoContent
                   THEN err = Failure("SourceUnavailable")
                   ELSE err = UnsupportedFormat(ext)

\* 'd.csv.ini' was read and rejected with the tag 'ini'
C5_Witness ==
    /\ pc = "failed"
    /\ LastDotSegment(source) = Ini
    /\ Len(source) > 5
    /\ content.kind = "grid"
    /\ err = UnsupportedFormat(Ini)

InstallHints == {"openpyxl", "xlrd", "odfpy", "pyyaml", "lxml", "beautifulsoup4"}

\* C6: whenever a capability a handler depends on cannot be loaded,
\* construction fails with the resolver's MissingCapability error, whose
\* message carries the install hint.
C6_MissingCapabilityFromResolver ==
    err.module # ""
        => /\ pc = "failed"
           /\ err.kind = "MissingCapability"
           /\ err.hint \in InstallHints

\* some segment of the path is looked up in a mapping that lacks the key
RECURSIVE MissingKey(_, _)
MissingKey(obj, parts) ==
    /\ parts # <<>>
    /\ obj.t = "map"
    /\ \/ parts[1] \notin DOMAIN obj.m
       \/ MissingKey(obj.m[parts[1]], Tail(parts))

RootParts == SplitOn(kwargs.root_node, ".", 1, <<>>)

\* C7: for a parsed JSON or YAML document and a root_node path with a
\* missing key at some depth, construction succeeds with a table of zero
\* columns and zero rows.
C7_MissingRootNodeIsEmptyTable ==
    (/\ Ended
     /\ ext \in ObjectTags
     /\ content.kind = "doc"
     /\ err.kind # "MissingCapability"
     /\ kwargs.root_node # <<>>
     /\ MissingKey(content.obj, RootParts))
        => /\ pc = "done"
           /\ returned.columns = <<>>
           /\ returned.rows = <<>>

\* the scenario of the spec: 'data' exists and has no 'rows'
C7_Witness ==
    /\ pc = "done"
    /\ ext = Json
    /\ kwargs.root_node = KeyData \o <<".">> \o KeyRows
    /\ content.obj = MapObj([k \in {KeyData} |-> EmptyMap])
    /\ returned = EmptyFrame

\* C8: a second (and any later) pass of _clean_headers leaves the labels the
\* first pass produced unchanged.
C8_CleanIdempotent ==
    [][(cleanings >= 1 /\ cleanings' = cleanings + 1) => df'.columns = df.columns]_vars

\* two passes over a sequence the first pass had to suffix twice and to
\* fill in once
C8_Witness ==
    /\ cleanings >= 2
    /\ df.columns = <<A, StrVal(<<"a", "_", "1">>), Untitled1>>

AllPositional(cols) ==
    \A i \in DOMAIN cols : cols[i].t = "int" \/ (cols[i].t = "str" /\ IsDigit(cols[i].s))

PromotionStep == pc = "post" /\ pc' = "clean" /\ kwargs.headers.kind = "first_row"

Promoted ==
    /\ Len(df.rows) >= 1
    /\ Len(df'.rows) = Len(df.rows) - 1
    /\ df'.rows = Tail(df.rows)
    /\ df'.columns = [i \in DOMAIN df.rows[1] |-> StrVal(PyStr(df.rows[1][i]))]

\* C9 as stated: promotion acts by label shape alone: with all labels
\* positional the first row becomes the labels and is removed, otherwise
\* nothing changes.
C9_PromotionByLabelShape ==
    [][PromotionStep => IF AllPositional(df.columns) THEN Promoted ELSE df' = df]_vars

\* C9, amended: with at least one data row and all labels positional the
\* first row's stringified cells become the labels and the row is removed;
\* with a non-positional label, or with no data row, nothing changes.
C9_PromotionNeedsARow ==
    [][PromotionStep
         => IF Len(df.rows) >= 1 /\ AllPositional(df.columns)
            THEN Promoted
            ELSE df' = df]_vars

\* an xml source of two rows after promotion: the first row, with its int
\* cells stringified, is the label sequence and one row is left
C9_Witness ==
    /\ pc = "clean"
    /\ ext = Xml
    /\ kwargs.headers.kind = "first_row"
    /\ Len(content.rows) = 2
    /\ content.rows[1] = <<IntVal(7), B>>
    /\ df.columns = <<StrVal(<<"7">>), B>>
    /\ df.rows = Tail(content.rows)

\* C10: the table the facade holds stays the one construction returned,
\* whatever the caller does with what __iter__ and to_dataframe gave it.
C10_TableUnchangedAfterConstruction == pc = "done" => data = returned

====
